---- MODULE Spec2Model ----
(***************************************************************************)
(* A model of pywiscat: the WIS 1.0 local pipeline (wis1/util.py: file     *)
(* enumeration, term search, grouping by originator, citation authority)   *)
(* and the WIS2 remote pipeline (wis2/catalogue.py: identifier parsing,   *)
(* the GDC query builder and the lookup of a record by its identifier),    *)
(* and the KPI report of wis2/metrics.py.                                  *)
(*                                                                         *)
(* Python strings on which the code computes (split, strip, lower,        *)
(* endswith, replace, concatenation) are sequences of one-character        *)
(* strings; strings the code only compares or stores are TLA+ strings.     *)
(* None is the one-element sequence <<"None">>, which is no sequence of    *)
(* characters.                                                             *)
(***************************************************************************)
EXTENDS Integers, Sequences, FiniteSets, TLC

VARIABLES
    \* search_files_by_term (wis1/util.py)
    directory,          \* the tree os.walk yields: a sequence of files
    terms,              \* the list of search terms
    file_list,          \* create_file_list's result
    matches,            \* the paths matched so far
    file_count,         \* files examined so far
    match_count,        \* matches counted so far
    sf_pc,              \* "idle" | "start" | "loop" | "returned" | "raised"
    \* group_by_originator (wis1/util.py)
    g_file_list,        \* the file list given
    group_by_authority, \* the flag given
    results_by_org,     \* the tally: a dict, here a function on its keys
    g_file_count,       \* files parsed so far
    g_errors,           \* the files LOGGER.error reported, by position in the list
    g_pc,               \* "idle" | "loop" | "returned" | "raised"
    \* the identifier parsers (wis1/util.py, wis2/catalogue.py, wis2/metrics.py)
    identifier,         \* the identifier given
    id_call,            \* the function called, "none" before the call
    id_result,          \* what the call gave: [raised |-> ..., value |-> ...]
    \* search and search_gdc (wis2/catalogue.py)
    options,            \* search_gdc's command-line options (None: search called directly)
    kwargs,             \* search's keyword arguments, in the order given
    params,             \* the outbound query parameters
    gdc,                \* what the remote catalogue answers to the request
    response,           \* requests.get's response (None before the request)
    output,             \* search's return value (None, or the result dict)
    rq_raised,          \* the exception search or search_gdc raised, "no" if none
    rq_pc,              \* search: "idle" | "called" | "request" | "results" | "returned" | "raised"
    cli_out,            \* what search_gdc echoed
    cli_pc,             \* search_gdc: "idle" | "start" | "searching" | "done" | "raised"
    \* get and get_gdc_record (wis2/catalogue.py)
    rec_identifier,     \* the identifier given
    rec_gdc,            \* what the remote catalogue answers to items/{identifier}
    rec_result,         \* what get gave: [raised |-> ..., value |-> <<url, body>>]
    rec_raised,         \* the exception get_gdc_record ended with, if any
    rec_out,            \* what get_gdc_record echoed
    rec_pc,             \* get_gdc_record: "idle" | "start" | "got" | "done" | "raised"
    \* analyze_kpi (wis2/metrics.py)
    kpi_centre_id,      \* the centre id given
    kpi_archive,        \* the files of archive_dir, in the order glob yields them
    kpi_report,         \* report[centre_id]
    kpi_count,          \* matching files read so far
    kpi_raised,         \* the exception analyze_kpi raised, "no" if none
    kpi_pc              \* "idle" | "loop" | "returned" | "raised"

sfVars == <<directory, terms, file_list, matches, file_count, match_count, sf_pc>>
gVars == <<g_file_list, group_by_authority, results_by_org, g_file_count, g_errors, g_pc>>
idVars == <<identifier, id_call, id_result>>
rqVars == <<options, kwargs, params, gdc, response, output, rq_raised, rq_pc, cli_out, cli_pc>>

recVars == <<rec_identifier, rec_gdc, rec_result, rec_raised, rec_out, rec_pc>>

kpiVars == <<kpi_centre_id, kpi_archive, kpi_report, kpi_count, kpi_raised, kpi_pc>>

vars == <<sfVars, gVars, idVars, rqVars, recVars, kpiVars>>

None == <<"None">>

(***************************************************************************)
(* Bounds of the model.                                                    *)
(***************************************************************************)
MaxFiles == 2
MaxTerms == 2
MaxGroupFiles == 2
MaxContacts == 2
MaxIdLen == 7
MaxKwargs == 3
MaxFeatures == 2
MaxLinks == 2
MaxArchive == 2

(***************************************************************************)
(* Python's str operations, on sequences of characters.                    *)
(***************************************************************************)
\* All sequences over S of length 0..n.
SeqsUpTo(S, n) == UNION {[1..k -> S] : k \in 0..n}

\* str.lower() on one character, of those the inputs are made of.
LowerChar(c) ==
    CASE c = "A" -> "a"
      [] c = "B" -> "b"
      [] c = "X" -> "x"
      [] c = "M" -> "m"
      [] c = "L" -> "l"
      [] OTHER -> c

\* str.lower()
Lower(s) == [i \in 1..Len(s) |-> LowerChar(s[i])]

\* The characters str.strip() removes.
IsSpace(c) == c \in {" ", "\n", "\t"}

RECURSIVE LStrip(_)
LStrip(s) == IF s # <<>> /\ IsSpace(Head(s)) THEN LStrip(Tail(s)) ELSE s

RECURSIVE RStrip(_)
RStrip(s) ==
    IF s # <<>> /\ IsSpace(s[Len(s)]) THEN RStrip(SubSeq(s, 1, Len(s) - 1)) ELSE s

\* str.strip()
Strip(s) == RStrip(LStrip(s))

\* sep.join(parts)
RECURSIVE Join(_, _)
Join(sep, parts) ==
    IF parts = <<>> THEN <<>>
    ELSE IF Len(parts) = 1 THEN parts[1]
    ELSE parts[1] \o sep \o Join(sep, Tail(parts))

\* needle in hay
Contains(hay, needle) ==
    \E i \in 0..(Len(hay) - Len(needle)) : SubSeq(hay, i + 1, i + Len(needle)) = needle

\* s.split(sep), sep one character
RECURSIVE Split(_, _)
Split(s, sep) ==
    IF \A i \in 1..Len(s) : s[i] # sep THEN <<s>>
    ELSE LET i == CHOOSE k \in 1..Len(s) : s[k] = sep /\ \A j \in 1..(k - 1) : s[j] # sep
         IN <<SubSeq(s, 1, i - 1)>> \o Split(SubSeq(s, i + 1, Len(s)), sep)

\* s.endswith(suffix)
EndsWith(s, suffix) ==
    /\ Len(s) >= Len(suffix)
    /\ SubSeq(s, Len(s) - Len(suffix) + 1, Len(s)) = suffix

(***************************************************************************)
(* wis1/util.py: create_file_list, search_files_by_term                    *)
(***************************************************************************)
XmlExt == <<".", "x", "m", "l">>

\* f'{root}/{name}'
Filename(file) == file.root \o <<"/">> \o file.name

\* e.xpath('//text()') of a parsed document, stripped and joined by ' '.
AnyText(doc) == Join(<<" ">>, [i \in 1..Len(doc.text) |-> Strip(doc.text[i])])

\* any(...) in the place of all(...)
AnyTerm(anytext, ts) == \E i \in 1..Len(ts) : Contains(Lower(anytext), Lower(ts[i]))

\* all(term.lower() in anytext.lower() for term in terms)
AllTerms(anytext, ts) == \A i \in 1..Len(ts) : Contains(Lower(anytext), Lower(ts[i]))

\* The documents a file can hold: malformed XML, or a tree with these text nodes.
Malformed == [ok |-> FALSE, text |-> <<>>]
Parsed(text) == [ok |-> TRUE, text |-> text]

DocSamples ==
    { Malformed,
      Parsed(<< <<" ", "a", "\n">>, <<" ">>, <<"B">> >>),   \* "a  B"
      Parsed(<< <<"A", "b">> >>),                           \* "Ab"
      Parsed(<< <<"a">>, <<"b">> >>),                       \* "a b"
      Parsed(<< >>) }                                       \* ""

\* File names: with the extension, with it in upper case, and without its dot.
NameSamples ==
    { <<"r", ".", "x", "m", "l">>,
      <<"r", ".", "X", "M", "L">>,
      <<"x", "m", "l">> }

TermSamples ==
    { <<"a">>, <<"a", " ", "b">>, <<"A", "B">>, <<>> }

\* Files of the root directory, and two of a subdirectory.
FileSamples ==
    {[root |-> <<"d">>, name |-> n, doc |-> d] : n \in NameSamples, d \in DocSamples}
    \cup {[root |-> <<"d", "/", "s">>, name |-> <<".", "x", "m", "l">>, doc |-> d] :
              d \in {Malformed, Parsed(<< <<"A", "b">> >>)}}

\* A directory tree in walk order: files of distinct paths.
Directories ==
    {s \in SeqsUpTo(FileSamples, MaxFiles) :
        \A i, j \in 1..Len(s) : i # j => Filename(s[i]) # Filename(s[j])}

SelectXml(files) == SelectSeq(files, LAMBDA f : EndsWith(Filename(f), XmlExt))

\* create_file_list(directory)
create_file_list ==
    /\ sf_pc = "start"
    /\ file_list' = SelectXml(directory)
    /\ sf_pc' = "loop"
    /\ UNCHANGED <<directory, terms, matches, file_count, match_count>>

\* The iteration with the parse error caught and the file passed over
search_file_skip_malformed ==
    /\ sf_pc = "loop"
    /\ file_count < Len(file_list)
    /\ LET file == file_list[file_count + 1] IN
       /\ file_count' = file_count + 1
       /\ IF EndsWith(Filename(file), XmlExt) /\ file.doc.ok
             /\ AllTerms(AnyText(file.doc), terms)
          THEN /\ match_count' = match_count + 1
               /\ matches' = Append(matches, Filename(file))
               /\ UNCHANGED sf_pc
          ELSE UNCHANGED <<matches, match_count, sf_pc>>
    /\ UNCHANGED <<directory, terms, file_list>>

\* One iteration of search_files_by_term's loop over file_list.
search_file ==
    /\ sf_pc = "loop"
    /\ file_count < Len(file_list)
    /\ LET file == file_list[file_count + 1] IN
       /\ file_count' = file_count + 1
       /\ IF ~EndsWith(Filename(file), XmlExt)
          THEN UNCHANGED <<matches, match_count, sf_pc>>
          ELSE IF ~file.doc.ok
          THEN /\ sf_pc' = "raised"
               /\ UNCHANGED <<matches, match_count>>
          ELSE IF AllTerms(AnyText(file.doc), terms)
          THEN /\ match_count' = match_count + 1
               /\ matches' = Append(matches, Filename(file))
               /\ UNCHANGED sf_pc
          ELSE UNCHANGED <<matches, match_count, sf_pc>>
    /\ UNCHANGED <<directory, terms, file_list>>

\* return matches
search_return ==
    /\ sf_pc = "loop"
    /\ file_count = Len(file_list)
    /\ sf_pc' = "returned"
    /\ UNCHANGED <<directory, terms, file_list, matches, file_count, match_count>>

SfIdle ==
    /\ directory = <<>>
    /\ terms = <<>>
    /\ file_list = <<>>
    /\ matches = <<>>
    /\ file_count = 0
    /\ match_count = 0
    /\ sf_pc = "idle"

SfStart ==
    /\ directory \in Directories
    /\ terms \in SeqsUpTo(TermSamples, MaxTerms)
    /\ file_list = <<>>
    /\ matches = <<>>
    /\ file_count = 0
    /\ match_count = 0
    /\ sf_pc = "start"

(***************************************************************************)
(* wis1/util.py: identifier, citation_authority, group_by_originator       *)
(***************************************************************************)
\* A result of a call: a value returned, or an exception raised.
Returned(v) == [raised |-> "no", value |-> v]
Raised(e) == [raised |-> e, value |-> None]

\* identifier(exml): exml.xpath('//gmd:fileIdentifier/gco:CharacterString/text()')[0]
Identifier(doc) ==
    IF doc.file_identifier = <<>> THEN Raised("IndexError")
    ELSE Returned(doc.file_identifier[1])

\* components[2] in the place of components[3]
CitationAuthorityIndex2(file_identifier) ==
    IF file_identifier # None
    THEN LET components == Split(file_identifier, ":") IN
         IF Len(components) > 3 THEN components[3] ELSE <<>>
    ELSE <<>>

\* citation_authority(file_identifier)
CitationAuthority(file_identifier) ==
    IF file_identifier # None
    THEN LET components == Split(file_identifier, ":") IN
         IF Len(components) > 3 THEN components[4] ELSE <<>>
    ELSE <<>>

\* A gmd:CI_ResponsibleParty block: whether its role code is pointOfContact, and
\* the text nodes of its organisation name.
Contact(poc, org_name) == [poc |-> poc, org_name |-> org_name]

\* The last such block in the place of the first: the loop without its break,
\* crediting the last name only
LastContact(contacts) ==
    IF \E i \in 1..Len(contacts) : contacts[i].poc /\ contacts[i].org_name # <<>>
    THEN CHOOSE i \in 1..Len(contacts) :
            /\ contacts[i].poc /\ contacts[i].org_name # <<>>
            /\ \A j \in (i + 1)..Len(contacts) : ~(contacts[j].poc /\ contacts[j].org_name # <<>>)
    ELSE 0

\* The first block, in document order, the loop tallies and breaks at; 0 if none.
FirstContact(contacts) ==
    IF \E i \in 1..Len(contacts) : contacts[i].poc /\ contacts[i].org_name # <<>>
    THEN CHOOSE i \in 1..Len(contacts) :
            /\ contacts[i].poc /\ contacts[i].org_name # <<>>
            /\ \A j \in 1..(i - 1) : ~(contacts[j].poc /\ contacts[j].org_name # <<>>)
    ELSE 0

\* results[key] = 1 whether or not the key is new
IncrementReset(results, key) ==
    [k \in DOMAIN results \cup {key} |-> IF k = key THEN 1 ELSE results[k]]

\* results[key] += 1, or results[key] = 1 for a new key
Increment(results, key) ==
    IF key \in DOMAIN results
    THEN [results EXCEPT ![key] = @ + 1]
    ELSE [k \in DOMAIN results \cup {key} |-> IF k = key THEN 1 ELSE results[k]]

EmptyDict == [k \in {} |-> 0]

\* results[authority] = {org: 1} for an authority already there, in the place of
\* the count added to its dict
TallyReplace(results, authority, org) ==
    IF authority = None
    THEN Increment(results, org)
    ELSE [k \in DOMAIN results \cup {authority} |->
             IF k = authority THEN Increment(EmptyDict, org) ELSE results[k]]

\* The tally after the document's first point of contact with a name is added,
\* flat (authority None) or under its citation authority.
Tally(results, authority, org) ==
    IF authority = None
    THEN Increment(results, org)
    ELSE LET with == IF authority \in DOMAIN results THEN results
                     ELSE [k \in DOMAIN results \cup {authority} |->
                              IF k = authority THEN EmptyDict ELSE results[k]]
         IN [with EXCEPT ![authority] = Increment(@, org)]

\* Documents as group_by_originator reads them.
GMalformed == [ok |-> FALSE, file_identifier |-> <<>>, contacts |-> <<>>]
GParsed(ids, contacts) == [ok |-> TRUE, file_identifier |-> ids, contacts |-> contacts]

ContactSamples ==
    { Contact(TRUE, <<"ECMWF">>), Contact(TRUE, <<>>), Contact(FALSE, <<"DWD">>) }

\* "u:w:m:ca:x" (authority "ca"), "u:w:m" (three segments), "u:w:m:" (an empty
\* fourth segment), and no fileIdentifier at all.
IdCa == <<"u", ":", "w", ":", "m", ":", "c", "a", ":", "x">>
IdShort == <<"u", ":", "w", ":", "m">>
IdEmpty4 == <<"u", ":", "w", ":", "m", ":">>

GDocSamples ==
    {GMalformed}
    \cup {GParsed(<<IdCa>>, cs) : cs \in SeqsUpTo(ContactSamples, MaxContacts)}
    \cup {GParsed(ids, <<Contact(TRUE, <<"DWD">>)>>) :
             ids \in {<<>>, <<IdCa>>, <<IdShort>>, <<IdEmpty4>>}}
    \cup {GParsed(<<IdShort>>, <<Contact(TRUE, <<"ECMWF">>), Contact(TRUE, <<"DWD">>)>>)}

GStart ==
    /\ g_file_list \in SeqsUpTo(GDocSamples, MaxGroupFiles)
    /\ group_by_authority \in BOOLEAN
    /\ results_by_org = EmptyDict
    /\ g_file_count = 0
    /\ g_errors = <<>>
    /\ g_pc = "loop"

GIdle ==
    /\ g_file_list = <<>>
    /\ group_by_authority = FALSE
    /\ results_by_org = EmptyDict
    /\ g_file_count = 0
    /\ g_errors = <<>>
    /\ g_pc = "idle"

\* One iteration of group_by_originator's loop over file_list.
group_file ==
    /\ g_pc = "loop"
    /\ g_file_count < Len(g_file_list)
    /\ LET doc == g_file_list[g_file_count + 1]
           i == FirstContact(doc.contacts)
           id == Identifier(doc)
       IN
       IF ~doc.ok
       THEN \* etree.parse(file_path) raises, before the try block
            /\ g_pc' = "raised"
            /\ UNCHANGED <<results_by_org, g_file_count, g_errors>>
       ELSE
         /\ g_file_count' = g_file_count + 1
         /\ IF i = 0
            THEN UNCHANGED <<results_by_org, g_errors, g_pc>>
            ELSE IF group_by_authority /\ id.raised # "no"
            THEN \* except Exception: LOGGER.error
                 /\ g_errors' = Append(g_errors, g_file_count + 1)
                 /\ UNCHANGED <<results_by_org, g_pc>>
            ELSE /\ results_by_org' =
                        Tally(results_by_org,
                              IF group_by_authority THEN CitationAuthority(id.value) ELSE None,
                              doc.contacts[i].org_name[1])
                 /\ UNCHANGED <<g_errors, g_pc>>
    /\ UNCHANGED <<g_file_list, group_by_authority>>

\* return results_by_org
group_return ==
    /\ g_pc = "loop"
    /\ g_file_count = Len(g_file_list)
    /\ g_pc' = "returned"
    /\ UNCHANGED <<g_file_list, group_by_authority, results_by_org, g_file_count, g_errors>>

\* One pass of the loop body over a parsed document, as a function of the tally:
\* the tally with the document's first named point of contact added, unchanged
\* when it has none or when identifier() raises inside the try block.
GroupDoc(results, doc, by_authority) ==
    LET i == FirstContact(doc.contacts)
        id == Identifier(doc)
    IN IF i = 0 THEN results
       ELSE IF by_authority /\ id.raised # "no" THEN results
       ELSE Tally(results,
                  IF by_authority THEN CitationAuthority(id.value) ELSE None,
                  doc.contacts[i].org_name[1])

\* group_by_originator(file_list, group_by_authority) as a function of its
\* arguments: the tally returned, or the parse error of the first malformed file.
RECURSIVE GroupFrom(_, _, _)
GroupFrom(results, files, by_authority) ==
    IF files = <<>> THEN Returned(results)
    ELSE IF ~Head(files).ok THEN Raised("XMLSyntaxError")
    ELSE GroupFrom(GroupDoc(results, Head(files), by_authority), Tail(files), by_authority)

GroupByOriginator(files, by_authority) == GroupFrom(EmptyDict, files, by_authority)

(***************************************************************************)
(* wis2/catalogue.py: get_country_and_centre; wis2/metrics.py: get_centre_id *)
(***************************************************************************)
\* tokens[i] with Python's 0-based index i: nothing there raises IndexError.
HasIndex(tokens, i) == i + 1 <= Len(tokens)

\* s.rsplit('-', 1)[0]: the part before the last hyphen
BeforeLastHyphen(s) ==
    LET parts == Split(s, "-") IN
    IF Len(parts) = 1 THEN s ELSE Join(<<"-">>, SubSeq(parts, 1, Len(parts) - 1))

\* s.rsplit('-')[0]: with no maxsplit rsplit splits at every hyphen, as split does.
BeforeHyphen(s) == Split(s, "-")[1]

\* get_country_and_centre(identifier)
GetCountryAndCentre(id) ==
    LET colon == \E i \in 1..Len(id) : id[i] = ":"
        tokens == IF colon THEN Split(id, ":") ELSE Split(id, ".")
    IN IF ~colon /\ ~HasIndex(tokens, 1) THEN Raised("IndexError")
       ELSE IF Len(tokens) < 5 /\ ~HasIndex(tokens, 1) THEN Raised("IndexError")
       ELSE IF ~HasIndex(tokens, 3) THEN Raised("IndexError")
       ELSE Returned(<<BeforeHyphen(tokens[4]), tokens[4]>>)

\* split(':')[2] in the place of split(':')[3]
GetCentreIdIndex2(id) ==
    LET tokens == Split(id, ":") IN
    IF HasIndex(tokens, 2) THEN Returned(tokens[3]) ELSE Raised("IndexError")

\* get_centre_id(identifier)
GetCentreId(id) ==
    LET tokens == Split(id, ":") IN
    IF HasIndex(tokens, 3) THEN Returned(tokens[4]) ELSE Raised("IndexError")

IdChars == {"z", ":", "-", "."}

\* 'urn:wmo:md:zm-zmd:core.surface-based-observations.synop' (tests/run_tests.py)
TestId ==
    <<"u", "r", "n", ":", "w", "m", "o", ":", "m", "d", ":", "z", "m", "-", "z", "m", "d",
      ":", "c", "o", "r", "e", ".", "s", "u", "r", "f", "a", "c", "e", "-", "b", "a", "s",
      "e", "d", "-", "o", "b", "s", "e", "r", "v", "a", "t", "i", "o", "n", "s", ".", "s",
      "y", "n", "o", "p">>

Identifiers == SeqsUpTo(IdChars, MaxIdLen) \cup {TestId, IdCa}

IdStart ==
    /\ identifier \in Identifiers \cup {None}
    /\ id_call = "none"
    /\ id_result = None

IdIdle ==
    /\ identifier = None
    /\ id_call = "none"
    /\ id_result = None

call_citation_authority ==
    /\ id_call = "none"
    /\ id_call' = "citation_authority"
    /\ id_result' = Returned(CitationAuthority(identifier))
    /\ UNCHANGED identifier

call_get_country_and_centre ==
    /\ id_call = "none"
    /\ identifier # None
    /\ id_call' = "get_country_and_centre"
    /\ id_result' = GetCountryAndCentre(identifier)
    /\ UNCHANGED identifier

call_get_centre_id ==
    /\ id_call = "none"
    /\ identifier # None
    /\ id_call' = "get_centre_id"
    /\ id_result' = GetCentreId(identifier)
    /\ UNCHANGED identifier

(***************************************************************************)
(* wis2/catalogue.py: search, search_gdc                                   *)
(*                                                                         *)
(* Values of mixed Python types carry their type: None, a str (a sequence  *)
(* of characters), an int, a list of floats, a dict.  A float is its value *)
(* in thousandths.                                                         *)
(***************************************************************************)
PyNone == [t |-> "none"]
PyStr(s) == [t |-> "str", s |-> s]
PyInt(n) == [t |-> "int", n |-> n]
PyFloats(l) == [t |-> "floats", l |-> l]
PyDict(d) == [t |-> "dict", d |-> d]

title_maxlen == 50

Milli == 1000

Digits == <<"0", "1", "2", "3", "4", "5", "6", "7", "8", "9">>
IsDigit(c) == \E d \in 1..10 : Digits[d] = c
DigitOf(c) == (CHOOSE d \in 1..10 : Digits[d] = c) - 1

\* str(n) of a natural number
RECURSIVE NatStr(_)
NatStr(n) == IF n < 10 THEN <<Digits[n + 1]>> ELSE NatStr(n \div 10) \o <<Digits[(n % 10) + 1]>>

\* int(s) of a string of digits
RECURSIVE DigitsVal(_)
DigitsVal(s) ==
    IF s = <<>> THEN 0 ELSE 10 * DigitsVal(SubSeq(s, 1, Len(s) - 1)) + DigitOf(s[Len(s)])

\* str(f) of a float: the whole part, a point, and the decimals without trailing
\* zeros, at least one.
FloatStr(m) ==
    LET a == IF m < 0 THEN 0 - m ELSE m
        frac == a % Milli
        decimals ==
            IF frac % 100 = 0 THEN <<Digits[(frac \div 100) + 1]>>
            ELSE IF frac % 10 = 0
            THEN <<Digits[(frac \div 100) + 1], Digits[((frac \div 10) % 10) + 1]>>
            ELSE <<Digits[(frac \div 100) + 1], Digits[((frac \div 10) % 10) + 1],
                   Digits[(frac % 10) + 1]>>
    IN (IF m < 0 THEN <<"-">> ELSE <<>>) \o NatStr(a \div Milli) \o <<".">> \o decimals

\* float(s) of a decimal literal [-]digits[.digits] of at most three decimals;
\* ValueError for anything that is no number.
ParseFloat(lit) ==
    LET neg == lit # <<>> /\ Head(lit) = "-"
        body == IF neg THEN Tail(lit) ELSE lit
        parts == Split(body, ".")
        whole == parts[1]
        decimals == IF Len(parts) = 2 THEN parts[2] ELSE <<>>
        padded == decimals \o [i \in 1..(3 - Len(decimals)) |-> "0"]
        valid == /\ Len(parts) <= 2
                 /\ Len(decimals) <= 3
                 /\ Len(whole) + Len(decimals) >= 1
                 /\ \A i \in 1..Len(body) : IsDigit(body[i]) \/ body[i] = "."
        value == DigitsVal(whole) * Milli + DigitsVal(padded)
    IN IF valid THEN Returned(IF neg THEN 0 - value ELSE value) ELSE Raised("ValueError")

\* dict operations, a dict being a function on its keys
Put(d, k, v) == [x \in DOMAIN d \cup {k} |-> IF x = k THEN v ELSE d[x]]

\* Keyword arguments: a sequence of [key, value] of distinct keys, in the order given.
Kw(key, value) == [key |-> key, value |-> value]
HasKey(kw, key) == \E i \in 1..Len(kw) : kw[i].key = key

\* kwargs2.pop(key, None): the value
Pop(kw, key) ==
    IF HasKey(kw, key) THEN kw[CHOOSE i \in 1..Len(kw) : kw[i].key = key].value ELSE PyNone

\* kwargs2 after the five pops of lines 115-121
PoppedKeys == {"sortby", "type_", "begin", "end", "data_policy"}
AfterPops(kw) == SelectSeq(kw, LAMBDA kv : kv.key \notin PoppedKeys)

Unbound == [t |-> "unbound"]
Wildcard == PyStr(<<".", ".">>)

\* Lines 127-132: begin2 is assigned only when begin is None, end2 only when end is
\* not None; the f-string reads both.
Datetime(begin, end) ==
    IF begin.t = "none" /\ end.t = "none" THEN Returned(PyNone)
    ELSE LET begin2 == IF begin.t = "none" THEN Wildcard ELSE Unbound
             end2 == IF end.t # "none" THEN Wildcard ELSE Unbound
         IN IF begin2 = Unbound \/ end2 = Unbound THEN Raised("UnboundLocalError")
            ELSE Returned(PyStr(begin2.s \o <<"/">> \o end2.s))

\* two backslashes before every slash
RECURSIVE EscapeSlashTwice(_)
EscapeSlashTwice(s) ==
    IF s = <<>> THEN <<>>
    ELSE (IF Head(s) = "/" THEN <<"\\", "\\", "/">> ELSE <<Head(s)>>) \o EscapeSlashTwice(Tail(s))

\* value.replace('/', '\\/'): a backslash before every slash
RECURSIVE EscapeSlash(_)
EscapeSlash(s) ==
    IF s = <<>> THEN <<>>
    ELSE (IF Head(s) = "/" THEN <<"\\", "/">> ELSE <<Head(s)>>) \o EscapeSlash(Tail(s))

\* ', '.join(...) in the place of ','.join(...)
BboxParamSpaced(value) ==
    IF value.t = "floats"
    THEN Join(<<",", " ">>, [i \in 1..Len(value.l) |-> FloatStr(value.l[i])])
    ELSE Join(<<",", " ">>, [i \in 1..Len(value.s) |-> <<value.s[i]>>])

\* ','.join(str(t) for t in value): of a list of floats, or of a str's characters
BboxParam(value) ==
    IF value.t = "floats"
    THEN Join(<<",">>, [i \in 1..Len(value.l) |-> FloatStr(value.l[i])])
    ELSE Join(<<",">>, [i \in 1..Len(value.s) |-> <<value.s[i]>>])

\* One iteration of the loop of lines 146-158.
OtherParam(ps, key, value) ==
    IF value.t = "none" THEN ps
    ELSE IF key = "bbox" THEN Put(ps, "bbox", PyStr(BboxParam(value)))
    ELSE IF key = "q" THEN Put(ps, "q", PyStr(EscapeSlash(value.s)))
    ELSE IF key = "centre_id"
    THEN IF "q" \in DOMAIN ps
         THEN Put(ps, "q", PyStr(ps["q"].s \o <<" ", "A", "N", "D", " ", "\"">> \o value.s \o <<"\"">>))
         ELSE Put(ps, "q", PyStr(<<"\"">> \o value.s \o <<"\"">>))
    ELSE Put(ps, key, value)

RECURSIVE OtherParams(_, _)
OtherParams(ps, kw) ==
    IF kw = <<>> THEN ps
    ELSE OtherParams(OtherParam(ps, Head(kw).key, Head(kw).value), Tail(kw))

PutUnlessNone(d, k, v) == IF v.t = "none" THEN d ELSE Put(d, k, v)

\* Lines 110-160 of search: the query parameters, or the exception raised.
BuildParams(kw) ==
    LET datetime_ == Datetime(Pop(kw, "begin"), Pop(kw, "end")) IN
    IF datetime_.raised # "no" THEN datetime_
    ELSE Returned(
            OtherParams(
                PutUnlessNone(
                    PutUnlessNone(
                        PutUnlessNone(EmptyDict, "datetime", datetime_.value),
                        "sortby", Pop(kw, "sortby")),
                    "wmo:dataPolicy", Pop(kw, "data_policy")),
                AfterPops(kw)))

Fields == <<"id", "centre", "title", "data policy">>

\* >= in the place of >: a title of exactly title_maxlen characters is cut too
TitleShortFrom50(title) ==
    IF Len(title) >= title_maxlen
    THEN SubSeq(title, 1, title_maxlen) \o <<".", ".", ".">>
    ELSE title

\* Lines 189-192
TitleShort(title) ==
    IF Len(title) > title_maxlen
    THEN SubSeq(title, 1, title_maxlen) \o <<".", ".", ".">>
    ELSE title

Missing == <<"m", "i", "s", "s", "i", "n", "g">>

\* .get('name') in the place of ['name']: a dict without 'name' gives None
DataPolicyGetName(policy) ==
    IF policy.t = "none" THEN Missing
    ELSE IF policy.t = "dict"
    THEN IF "name" \in DOMAIN policy.d THEN policy.d["name"] ELSE None
    ELSE policy.s

\* Lines 195-202: the KeyError of an absent field, or of a dict without 'name', is caught.
DataPolicy(policy) ==
    IF policy.t = "none" THEN Missing
    ELSE IF policy.t = "dict"
    THEN IF "name" \in DOMAIN policy.d THEN policy.d["name"] ELSE Missing
    ELSE policy.s

\* A feature of the response: its id, its properties' title and wmo:dataPolicy,
\* PyNone for a key that is absent.
Feature(id, title, policy) == [id |-> id, title |-> title, policy |-> policy]

\* Lines 180-212 for one feature: the record appended, or the exception raised.
Record(item) ==
    IF item.id.t = "none" THEN Raised("KeyError")
    ELSE LET cc == GetCountryAndCentre(item.id.s) IN
         IF cc.raised # "no" THEN cc
         ELSE IF item.title.t = "none" THEN Raised("KeyError")
         ELSE Returned(<<item.id.s, cc.value[2], TitleShort(item.title.s),
                         DataPolicy(item.policy)>>)

\* The loop of lines 179-212: the records of the features, or the first exception.
RECURSIVE Records(_)
Records(items) ==
    IF items = <<>> THEN Returned(<<>>)
    ELSE LET first == Record(Head(items)) IN
         IF first.raised # "no" THEN first
         ELSE LET rest == Records(Tail(items)) IN
              IF rest.raised # "no" THEN rest
              ELSE Returned(<<first.value>> \o rest.value)

\* Lines 172-214: the result dict; 'fields' is set inside the loop.
Output(json, records) ==
    [k \in {"matched", "returned", "records"}
           \cup (IF json.features = <<>> THEN {} ELSE {"fields"}) |->
        CASE k = "matched" -> json.matched
          [] k = "returned" -> Len(json.features)
          [] k = "records" -> records
          [] k = "fields" -> Fields]

\* search, lines 110-160
search_params ==
    /\ rq_pc = "called"
    /\ LET built == BuildParams(kwargs) IN
       IF built.raised # "no"
       THEN /\ rq_pc' = "raised"
            /\ rq_raised' = built.raised
            /\ UNCHANGED params
       ELSE /\ rq_pc' = "request"
            /\ params' = built.value
            /\ UNCHANGED rq_raised
    /\ UNCHANGED <<options, kwargs, gdc, response, output, cli_out, cli_pc>>

\* The request without the return on a non-success status
search_request_no_return ==
    /\ rq_pc = "request"
    /\ response' = gdc
    /\ rq_pc' = "results"
    /\ UNCHANGED <<options, kwargs, params, gdc, output, rq_raised, cli_out, cli_pc>>

\* search, lines 162-168: the request, and the return on a non-success status
search_request ==
    /\ rq_pc = "request"
    /\ response' = gdc
    /\ rq_pc' = IF gdc.ok THEN "results" ELSE "returned"
    /\ UNCHANGED <<options, kwargs, params, gdc, output, rq_raised, cli_out, cli_pc>>

\* search, lines 170-214
search_results ==
    /\ rq_pc = "results"
    /\ LET records == IF response.is_json THEN Records(response.features)
                      ELSE Raised("JSONDecodeError") IN
       IF records.raised # "no"
       THEN /\ rq_pc' = "raised"
            /\ rq_raised' = records.raised
            /\ UNCHANGED output
       ELSE /\ rq_pc' = "returned"
            /\ output' = PyDict(Output(response, records.value))
            /\ UNCHANGED rq_raised
    /\ UNCHANGED <<options, kwargs, params, gdc, response, cli_out, cli_pc>>

\* [float(i) for i in bbox.split(',')]: the floats, or the first ValueError
RECURSIVE Floats(_)
Floats(lits) ==
    IF lits = <<>> THEN Returned(<<>>)
    ELSE LET first == ParseFloat(Head(lits)) IN
         IF first.raised # "no" THEN first
         ELSE LET rest == Floats(Tail(lits)) IN
              IF rest.raised # "no" THEN rest
              ELSE Returned(<<first.value>> \o rest.value)

\* search_gdc, lines 263-274: the keyword arguments, in the order of the dict
GdcParams(o, bbox2) ==
    << Kw("type_", PyStr(<<"d", "a", "t", "a", "s", "e", "t">>)),
       Kw("begin", o.begin), Kw("end", o.end), Kw("q", o.q), Kw("bbox", bbox2),
       Kw("sortby", o.sortby), Kw("limit", o.limit), Kw("offset", o.offset),
       Kw("centre_id", o.centre_id), Kw("data_policy", o.data_policy) >>

\* search_gdc, lines 258-277: up to the call of search
gdc_call ==
    /\ cli_pc = "start"
    /\ LET bbox2 == IF options.bbox.t = "str" /\ options.bbox.s # <<>>
                    THEN Floats(Split(options.bbox.s, ","))
                    ELSE Returned(options.bbox) IN
       IF bbox2.raised # "no"
       THEN /\ cli_pc' = "raised"
            /\ rq_raised' = bbox2.raised
            /\ UNCHANGED <<kwargs, rq_pc, cli_out>>
       ELSE /\ cli_pc' = "searching"
            /\ kwargs' = GdcParams(options,
                                   IF bbox2.value = options.bbox THEN options.bbox
                                   ELSE PyFloats(bbox2.value))
            /\ rq_pc' = "called"
            /\ cli_out' = Append(cli_out, [echo |-> "querying"])
            /\ UNCHANGED rq_raised
    /\ UNCHANGED <<options, params, gdc, response, output>>

\* search_gdc, lines 279-296: after search returned, or its exception passing through
gdc_render ==
    /\ cli_pc = "searching"
    /\ rq_pc \in {"returned", "raised"}
    /\ IF rq_pc = "raised"
       THEN /\ cli_pc' = "raised"
            /\ UNCHANGED <<rq_raised, cli_out>>
       ELSE IF output.t = "none"
       THEN /\ cli_pc' = "raised"
            /\ rq_raised' = "ClickException: Could not query catalogue"
            /\ UNCHANGED cli_out
       ELSE LET results == output.d
                showing == [echo |-> "showing", returned |-> results["returned"],
                            matched |-> results["matched"]]
            IN IF results["matched"] = 0
               THEN /\ cli_pc' = "done"
                    /\ cli_out' = Append(cli_out, showing)
                    /\ UNCHANGED rq_raised
               ELSE IF "fields" \notin DOMAIN results
               THEN /\ cli_pc' = "raised"
                    /\ rq_raised' = "KeyError"
                    /\ cli_out' = Append(cli_out, showing)
               ELSE /\ cli_pc' = "done"
                    /\ cli_out' = cli_out \o
                          <<showing, [echo |-> "table", field_names |-> results["fields"],
                                      rows |-> results["records"]]>>
                    /\ UNCHANGED rq_raised
    /\ UNCHANGED <<options, kwargs, params, gdc, response, output, rq_pc>>

\* The inputs: keyword arguments of a direct call, options of the command line, and
\* answers of the remote catalogue.
Str_ab == <<"a", "/", "b">>
Str_slashes == <<"/", "x", "/">>
Str_ca == <<"c", "a">>
Str_begin == <<"2", "0", "2", "4">>
Str_end == <<"2", "0", "2", "5">>
Str_core == <<"c", "o", "r", "e">>
Str_sort == <<"t", "i", "t", "l", "e", ":", "D">>
Str_bbox == <<"1", ".", "0", ",", "2", ".", "0", ",", "3", ".", "0", ",", "4", ".", "0">>
Str_bbox2 == <<"1", ",", "2", ".", "5", "0", ",", "-", "3", ",", "0", ".", "1", "2", "5">>
Str_nobbox == <<"x">>

KwSamples ==
    { Kw("q", PyStr(Str_ab)), Kw("q", PyStr(Str_slashes)), Kw("q", PyNone),
      Kw("centre_id", PyStr(Str_ca)),
      Kw("begin", PyStr(Str_begin)), Kw("end", PyStr(Str_end)),
      Kw("bbox", PyFloats(<<1000, 2000, 3000, 4000>>)), Kw("sortby", PyStr(Str_sort)),
      Kw("data_policy", PyStr(Str_core)), Kw("limit", PyInt(10)),
      Kw("type_", PyStr(<<"d", "a", "t", "a", "s", "e", "t">>)) }

KwargsSamples ==
    {kw \in SeqsUpTo(KwSamples, MaxKwargs) :
        \A i, j \in 1..Len(kw) : i # j => kw[i].key # kw[j].key}

OptionSamples ==
    [ begin : {PyNone, PyStr(Str_begin)}, end : {PyNone, PyStr(Str_end)},
      q : {PyNone, PyStr(Str_ab)}, centre_id : {PyNone, PyStr(Str_ca)},
      bbox : {PyNone, PyStr(Str_bbox), PyStr(Str_bbox2), PyStr(Str_nobbox)},
      sortby : {PyNone}, data_policy : {PyNone, PyStr(Str_core)},
      limit : {PyInt(500)}, offset : {PyInt(0)} ]

Title(n) == [i \in 1..n |-> "t"]

TitleSamples == {PyNone, PyStr(Title(3)), PyStr(Title(title_maxlen)), PyStr(Title(title_maxlen + 1))}

PolicySamples ==
    { PyNone, PyStr(Str_core), PyDict([name |-> Str_core]),
      PyDict([id |-> Str_core]) }

FeatureSamples ==
    {Feature(PyStr(IdCa), t, p) : t \in TitleSamples, p \in PolicySamples}
    \cup {Feature(PyNone, PyStr(Title(3)), PyStr(Str_core)),
          Feature(PyStr(IdShort), PyStr(Title(3)), PyStr(Str_core))}

\* Answers: a non-success status with a JSON or another body, a success whose body
\* is no JSON, and feature collections.
Answer(ok, is_json, matched, features) ==
    [ok |-> ok, is_json |-> is_json, matched |-> matched, features |-> features]

Answers ==
    { Answer(FALSE, TRUE, 0, <<>>), Answer(FALSE, FALSE, 0, <<>>), Answer(TRUE, FALSE, 0, <<>>) }
    \cup {Answer(TRUE, TRUE, m, fs) : m \in {0, 3}, fs \in SeqsUpTo(FeatureSamples, MaxFeatures)}

PlainAnswers ==
    { Answer(FALSE, TRUE, 0, <<>>),
      Answer(TRUE, TRUE, 1, <<Feature(PyStr(IdCa), PyStr(Title(3)), PyStr(Str_core))>>) }

PlainOptions ==
    [ begin |-> PyNone, end |-> PyNone, q |-> PyStr(Str_ab), centre_id |-> PyNone,
      bbox |-> PyNone, sortby |-> PyNone, data_policy |-> PyNone,
      limit |-> PyInt(500), offset |-> PyInt(0) ]

\* search called directly
RqDirect ==
    /\ options = PyNone
    /\ \/ kwargs \in KwargsSamples /\ gdc \in PlainAnswers
       \/ kwargs = <<Kw("q", PyStr(Str_ab))>> /\ gdc \in Answers
    /\ rq_pc = "called"
    /\ cli_pc = "idle"

\* search_gdc called from the command line
RqCli ==
    /\ \/ options \in OptionSamples /\ gdc \in PlainAnswers
       \/ options = PlainOptions /\ gdc \in Answers
    /\ kwargs = <<>>
    /\ rq_pc = "idle"
    /\ cli_pc = "start"

RqStart ==
    /\ RqDirect \/ RqCli
    /\ params = EmptyDict
    /\ response = PyNone
    /\ output = PyNone
    /\ rq_raised = "no"
    /\ cli_out = <<>>

RqIdle ==
    /\ options = PyNone
    /\ kwargs = <<>>
    /\ params = EmptyDict
    /\ gdc = PyNone
    /\ response = PyNone
    /\ output = PyNone
    /\ rq_raised = "no"
    /\ rq_pc = "idle"
    /\ cli_out = <<>>
    /\ cli_pc = "idle"

(***************************************************************************)
(* wis2/catalogue.py: get, get_gdc_record                                  *)
(*                                                                         *)
(* The body of the catalogue's answer is a JSON object: the record (id,    *)
(* properties.title, properties['wmo:dataPolicy'], properties.description, *)
(* links) or an exception report (description); PyNone for an absent key.  *)
(***************************************************************************)
Exception(exc, message) == [exc |-> exc, message |-> message]
NoException == Exception("no", <<>>)

\* f'{GDC_URL}/items/{identifier}'
ItemUrl(id) == [collection |-> "wis2-discovery-metadata", item |-> id]

PyList(l) == [t |-> "list", l |-> l]

Body(description, id, title, policy, pdescription, links) ==
    [description |-> description, id |-> id, title |-> title, policy |-> policy,
     pdescription |-> pdescription, links |-> links]

\* get(identifier): response.json() is read whatever the status.
Get(id, answer) ==
    IF answer.is_json THEN Returned(<<ItemUrl(id), answer.body>>)
    ELSE Raised("JSONDecodeError")

\* get_country_prettified(country): the iso3166 entry with its flag, None for a
\* country iso3166 does not know.
CountryPrettified(country) ==
    IF country = <<"c", "a">> THEN PyDict([name |-> "Canada", alpha2 |-> "CA"])
    ELSE IF country = <<"z", "m">> THEN PyDict([name |-> "Zambia", alpha2 |-> "ZM"])
    ELSE PyNone

\* indent('\n'.join(wrap(description)), '\t').strip(), of a description of one short
\* word: wrap gives the one line (none for ''), indent puts the tab before it.
Wrapped(description) ==
    IF description = <<>> THEN <<>> ELSE Strip(<<"\t">> \o description)

skip_rels == {"root", "self", "alternate", "collection"}

Link(rel, href) == [rel |-> rel, href |-> href]

\* Lines 331-333
LinkEchoes(links) ==
    LET shown == SelectSeq(links, LAMBDA link : link.rel \notin skip_rels)
    IN [i \in 1..Len(shown) |-> [echo |-> "link", href |-> shown[i].href]]

Stopped(out, exc) == [out |-> out, raised |-> exc]

\* get_gdc_record, lines 315-336: what is echoed, and the KeyError or IndexError
\* that ends it early.
RecordEchoes(url, result) ==
    LET cc == IF result.id.t = "none" THEN Raised("KeyError")
              ELSE GetCountryAndCentre(result.id.s)
        first == << [echo |-> "Record", text |-> result.title.s],
                    [echo |-> "ID", text |-> result.id.s],
                    [echo |-> "Country", value |-> CountryPrettified(cc.value[1])],
                    [echo |-> "Centre", text |-> cc.value[2]] >>
        policy == [echo |-> "Data policy", value |-> result.policy]
        description == [echo |-> "Description", text |-> Wrapped(result.pdescription.s)]
    IN IF cc.raised # "no" THEN Stopped(<<>>, cc.raised)
       ELSE IF result.title.t = "none" THEN Stopped(<<>>, "KeyError")
       ELSE IF result.policy.t = "none" THEN Stopped(first, "KeyError")
       ELSE IF result.pdescription.t = "none" THEN Stopped(first \o <<policy>>, "KeyError")
       ELSE IF result.links.t = "none"
       THEN Stopped(first \o <<policy, description, [echo |-> "Links:"]>>, "KeyError")
       ELSE Stopped(first \o <<policy, description, [echo |-> "Links:"]>>
                       \o LinkEchoes(result.links.l)
                       \o <<[echo |-> "URL", url |-> url], [echo |-> "\n"]>>, "no")

\* f'Record identifier {identifier} not found'
NotFound(id) ==
    <<"R", "e", "c", "o", "r", "d", " ", "i", "d", "e", "n", "t", "i", "f", "i", "e", "r", " ">>
    \o id \o <<" ", "n", "o", "t", " ", "f", "o", "u", "n", "d">>

\* get_gdc_record, lines 307-310: the echo, and the call of get
gdc_get ==
    /\ rec_pc = "start"
    /\ LET got == Get(rec_identifier, rec_gdc) IN
       /\ rec_result' = got
       /\ rec_out' = <<[echo |-> "querying"]>>
       /\ IF got.raised # "no"
          THEN rec_pc' = "raised" /\ rec_raised' = Exception(got.raised, <<>>)
          ELSE rec_pc' = "got" /\ UNCHANGED rec_raised
    /\ UNCHANGED <<rec_identifier, rec_gdc>>

\* get_gdc_record, lines 312-336
gdc_record ==
    /\ rec_pc = "got"
    /\ LET url == rec_result.value[1]
           result == rec_result.value[2]
       IN IF result.description.t # "none"
          THEN /\ rec_pc' = "raised"
               /\ rec_raised' = Exception("ClickException", NotFound(rec_identifier))
               /\ UNCHANGED rec_out
          ELSE LET shown == RecordEchoes(url, result) IN
               /\ rec_out' = rec_out \o shown.out
               /\ IF shown.raised # "no"
                  THEN rec_pc' = "raised" /\ rec_raised' = Exception(shown.raised, <<>>)
                  ELSE rec_pc' = "done" /\ UNCHANGED rec_raised
    /\ UNCHANGED <<rec_identifier, rec_gdc, rec_result>>

\* The inputs: the identifier asked for, and what the catalogue answers.
Str_title == <<"S", "y", "n", "o", "p">>
Str_desc == <<"O", "b", "s">>
Str_href == <<"h", "/", "x">>
Str_why == <<"n", "o", "n", "e">>

LinkSamples == {Link("self", Str_href), Link("canonical", Str_href), Link("collection", Str_href)}

\* A record of the catalogue with all its members.
FullRecord(id, links) ==
    Body(PyNone, PyStr(id), PyStr(Str_title), PyStr(Str_core), PyStr(Str_desc), PyList(links))

\* Records: complete ones, and ones that lack a member.
RecordBodies(id) ==
    {FullRecord(id, links) : links \in SeqsUpTo(LinkSamples, MaxLinks)}
    \cup { Body(PyNone, PyNone, PyStr(Str_title), PyStr(Str_core), PyStr(Str_desc), PyList(<<>>)),
           Body(PyNone, PyStr(id), PyNone, PyStr(Str_core), PyStr(Str_desc), PyList(<<>>)),
           Body(PyNone, PyStr(id), PyStr(Str_title), PyNone, PyStr(Str_desc), PyList(<<>>)),
           Body(PyNone, PyStr(id), PyStr(Str_title), PyStr(Str_core), PyNone, PyList(<<>>)),
           Body(PyNone, PyStr(id), PyStr(Str_title), PyStr(Str_core), PyStr(<<>>), PyList(<<>>)),
           Body(PyNone, PyStr(id), PyStr(Str_title), PyStr(Str_core), PyStr(Str_desc), PyNone) }

\* Exception reports of a non-success status: with a description, and with a code only.
ReportBodies ==
    { Body(PyStr(Str_why), PyNone, PyNone, PyNone, PyNone, PyNone),
      Body(PyNone, PyNone, PyNone, PyNone, PyNone, PyNone) }

ItemAnswer(ok, is_json, body) == [ok |-> ok, is_json |-> is_json, body |-> body]

\* Answers to items/{id}: the record, a non-success status with a report, and a
\* body of either status that is no JSON.
ItemAnswers(id) ==
    {ItemAnswer(TRUE, TRUE, b) : b \in RecordBodies(id)}
    \cup {ItemAnswer(FALSE, TRUE, b) : b \in ReportBodies}
    \cup {ItemAnswer(ok, FALSE, PyNone) : ok \in BOOLEAN}

RecStart ==
    /\ rec_identifier \in {IdCa, TestId, IdShort}
    /\ rec_gdc \in ItemAnswers(rec_identifier)
    /\ rec_result = None
    /\ rec_raised = NoException
    /\ rec_out = <<>>
    /\ rec_pc = "start"

RecIdle ==
    /\ rec_identifier = None
    /\ rec_gdc = PyNone
    /\ rec_result = None
    /\ rec_raised = NoException
    /\ rec_out = <<>>
    /\ rec_pc = "idle"

(***************************************************************************)
(* wis2/metrics.py: analyze_kpi                                            *)
(*                                                                         *)
(* An archive file has a name and holds malformed JSON or a record, of     *)
(* which the model keeps the id and the percentage that the KPI evaluation *)
(* of pywcmp gives it.  The average is kept to the thousandth.             *)
(***************************************************************************)
JsonExt == <<".", "j", "s", "o", "n">>

\* glob(f'{archive_dir}/*{centre_id}*.json'): the name holds the centre id before
\* its '.json' ending; '*' matches no leading dot.
GlobMatch(name, centre_id) ==
    /\ EndsWith(name, JsonExt)
    /\ Head(name) # "."
    /\ Contains(SubSeq(name, 1, Len(name) - Len(JsonExt)), centre_id)

Glob(archive, centre_id) == SelectSeq(archive, LAMBDA f : GlobMatch(f.name, centre_id))

\* sum(d.values())
RECURSIVE Sum(_)
Sum(d) ==
    IF DOMAIN d = {} THEN 0
    ELSE LET k == CHOOSE x \in DOMAIN d : TRUE
         IN d[k] + Sum([x \in DOMAIN d \ {k} |-> d[x]])

\* sum(1 for value in kpi_values if value > 80)
Over80(scoring) == Cardinality({k \in DOMAIN scoring : scoring[k] > 80})

\* total / len(scoring), for a scoring that is not empty
Average(scoring) == (Sum(scoring) * Milli) \div Cardinality(DOMAIN scoring)

\* Lines 135-141
NewReport ==
    [kpi_percentage_average |-> 0, kpi_percentage_over80_total |-> 0, scoring |-> EmptyDict]

\* One iteration of the loop of lines 143-149.
kpi_file ==
    /\ kpi_pc = "loop"
    /\ LET files == Glob(kpi_archive, kpi_centre_id) IN
       /\ kpi_count < Len(files)
       /\ LET f == files[kpi_count + 1] IN
          IF ~f.ok
          THEN \* json.load(fh) raises
               /\ kpi_pc' = "raised"
               /\ kpi_raised' = "JSONDecodeError"
               /\ UNCHANGED <<kpi_report, kpi_count>>
          ELSE /\ kpi_report' = [kpi_report EXCEPT !.scoring = Put(@, f.id, f.percentage)]
               /\ kpi_count' = kpi_count + 1
               /\ UNCHANGED <<kpi_pc, kpi_raised>>
    /\ UNCHANGED <<kpi_centre_id, kpi_archive>>

\* Lines 151-159: the average, the total over 80, and the return
kpi_return ==
    /\ kpi_pc = "loop"
    /\ kpi_count = Len(Glob(kpi_archive, kpi_centre_id))
    /\ IF DOMAIN kpi_report.scoring = {}
       THEN \* total / len(...) with no scoring
            /\ kpi_pc' = "raised"
            /\ kpi_raised' = "ZeroDivisionError"
            /\ UNCHANGED kpi_report
       ELSE /\ kpi_pc' = "returned"
            /\ kpi_report' =
                  [kpi_report EXCEPT !.kpi_percentage_average = Average(kpi_report.scoring),
                                     !.kpi_percentage_over80_total = Over80(kpi_report.scoring)]
            /\ UNCHANGED kpi_raised
    /\ UNCHANGED <<kpi_centre_id, kpi_archive, kpi_count>>

\* The inputs: archive files of names that match 'ca', match 'zm', are hidden, or
\* are no '.json' files, and records of percentages around 80.
Str_zm == <<"z", "m">>

ArchiveNames ==
    { <<"c", "a", ".", "j", "s", "o", "n">>,
      <<"x", "c", "a", "y", ".", "j", "s", "o", "n">>,
      <<".", "c", "a", ".", "j", "s", "o", "n">>,
      <<"c", "a", ".", "t", "x", "t">>,
      <<"z", "m", ".", "j", "s", "o", "n">> }

PercentageSamples == {0, 80, 81, 100}

ArchiveFile(name, ok, id, percentage) ==
    [name |-> name, ok |-> ok, id |-> id, percentage |-> percentage]

ArchiveFiles ==
    {ArchiveFile(n, TRUE, id, p) : n \in ArchiveNames, id \in {IdCa, IdShort}, p \in PercentageSamples}
    \cup {ArchiveFile(n, FALSE, <<>>, 0) : n \in ArchiveNames}

\* Archives in the order glob yields them: files of distinct names.
Archives ==
    {a \in SeqsUpTo(ArchiveFiles, MaxArchive) :
        \A i, j \in 1..Len(a) : i # j => a[i].name # a[j].name}

KpiStart ==
    /\ kpi_centre_id \in {Str_ca, Str_zm}
    /\ kpi_archive \in Archives
    /\ kpi_report = NewReport
    /\ kpi_count = 0
    /\ kpi_raised = "no"
    /\ kpi_pc = "loop"

KpiIdle ==
    /\ kpi_centre_id = None
    /\ kpi_archive = <<>>
    /\ kpi_report = NewReport
    /\ kpi_count = 0
    /\ kpi_raised = "no"
    /\ kpi_pc = "idle"

(***************************************************************************)
(* Specifications: one per operation, the other operations idle.           *)
(***************************************************************************)

InitSearchFiles == SfStart /\ GIdle /\ IdIdle /\ RqIdle /\ RecIdle /\ KpiIdle

NextSearchFiles ==
    \/ create_file_list /\ UNCHANGED <<gVars, idVars, rqVars, recVars, kpiVars>>
    \/ search_file /\ UNCHANGED <<gVars, idVars, rqVars, recVars, kpiVars>>
    \/ search_return /\ UNCHANGED <<gVars, idVars, rqVars, recVars, kpiVars>>

SpecSearchFiles == InitSearchFiles /\ [][NextSearchFiles]_vars

InitGroup == SfIdle /\ GStart /\ IdIdle /\ RqIdle /\ RecIdle /\ KpiIdle

NextGroup ==
    \/ group_file /\ UNCHANGED <<sfVars, idVars, rqVars, recVars, kpiVars>>
    \/ group_return /\ UNCHANGED <<sfVars, idVars, rqVars, recVars, kpiVars>>

SpecGroup == InitGroup /\ [][NextGroup]_vars

InitIdent == SfIdle /\ GIdle /\ IdStart /\ RqIdle /\ RecIdle /\ KpiIdle

NextIdent ==
    \/ call_citation_authority /\ UNCHANGED <<sfVars, gVars, rqVars, recVars, kpiVars>>
    \/ call_get_country_and_centre /\ UNCHANGED <<sfVars, gVars, rqVars, recVars, kpiVars>>
    \/ call_get_centre_id /\ UNCHANGED <<sfVars, gVars, rqVars, recVars, kpiVars>>

SpecIdent == InitIdent /\ [][NextIdent]_vars

InitSearch == SfIdle /\ GIdle /\ IdIdle /\ RqStart /\ RecIdle /\ KpiIdle

NextSearch ==
    \/ gdc_call /\ UNCHANGED <<sfVars, gVars, idVars, recVars, kpiVars>>
    \/ search_params /\ UNCHANGED <<sfVars, gVars, idVars, recVars, kpiVars>>
    \/ search_request /\ UNCHANGED <<sfVars, gVars, idVars, recVars, kpiVars>>
    \/ search_results /\ UNCHANGED <<sfVars, gVars, idVars, recVars, kpiVars>>
    \/ gdc_render /\ UNCHANGED <<sfVars, gVars, idVars, recVars, kpiVars>>

SpecSearch == InitSearch /\ [][NextSearch]_vars

InitGet == SfIdle /\ GIdle /\ IdIdle /\ RqIdle /\ RecStart /\ KpiIdle

NextGet ==
    \/ gdc_get /\ UNCHANGED <<sfVars, gVars, idVars, rqVars, kpiVars>>
    \/ gdc_record /\ UNCHANGED <<sfVars, gVars, idVars, rqVars, kpiVars>>

SpecGet == InitGet /\ [][NextGet]_vars

InitKpi == SfIdle /\ GIdle /\ IdIdle /\ RqIdle /\ RecIdle /\ KpiStart

NextKpi ==
    \/ kpi_file /\ UNCHANGED <<sfVars, gVars, idVars, rqVars, recVars>>
    \/ kpi_return /\ UNCHANGED <<sfVars, gVars, idVars, rqVars, recVars>>

SpecKpi == InitKpi /\ [][NextKpi]_vars

\* Any one of the operations.
Init == InitSearchFiles \/ InitGroup \/ InitIdent \/ InitSearch \/ InitGet \/ InitKpi

Next == NextSearchFiles \/ NextGroup \/ NextIdent \/ NextSearch \/ NextGet \/ NextKpi

Spec == Init /\ [][Next]_vars

(***************************************************************************)
(* Properties                                                              *)
(***************************************************************************)
\* The path ends in '.xml', character by character.
C1_IsXml(path) ==
    /\ Len(path) >= 4
    /\ path[Len(path) - 3] = "."
    /\ path[Len(path) - 2] = "x"
    /\ path[Len(path) - 1] = "m"
    /\ path[Len(path)] = "l"

\* term occurs in text at some offset, the characters compared case-folded.
C1_FoldedSubstring(text, term) ==
    \E off \in 0..(Len(text) - Len(term)) :
        \A k \in 1..Len(term) : LowerChar(text[off + k]) = LowerChar(term[k])

C1_Wanted(file) ==
    /\ C1_IsXml(Filename(file))
    /\ \A t \in 1..Len(terms) : C1_FoldedSubstring(AnyText(file.doc), terms[t])

C1_WantedPaths ==
    {Filename(directory[i]) : i \in {j \in 1..Len(directory) : C1_Wanted(directory[j])}}

\* C1: when search_files_by_term(D, T) returns, its result holds exactly the files
\* under D whose path ends in '.xml' and whose flattened text contains every term of
\* T as a case-insensitive substring, each once; with T empty, every '.xml' file.
C1_SearchExact ==
    sf_pc = "returned" =>
        /\ {matches[i] : i \in 1..Len(matches)} = C1_WantedPaths
        /\ Len(matches) = Cardinality(C1_WantedPaths)
        /\ terms = <<>> =>
              Len(matches) = Cardinality({i \in 1..Len(directory) : C1_IsXml(Filename(directory[i]))})

\* A returned search with terms given, where one '.xml' file matched and another did not.
C1_Witness ==
    /\ sf_pc = "returned"
    /\ terms # <<>>
    /\ Len(matches) = 1
    /\ Len(file_list) = 2

\* The document has a point-of-contact responsible-party block with an organisation name.
HasPocOrg(doc) ==
    \E i \in 1..Len(doc.contacts) : doc.contacts[i].poc /\ doc.contacts[i].org_name # <<>>

RECURSIVE SumValues(_)
SumValues(f) ==
    IF DOMAIN f = {} THEN 0
    ELSE LET k == CHOOSE x \in DOMAIN f : TRUE
         IN f[k] + SumValues([x \in DOMAIN f \ {k} |-> f[x]])

\* C2: group_by_originator(L, False) returns a mapping whose values sum to the number
\* of files of L with a point-of-contact block that has an organisation name; no key
\* has the count 0, and every key is the name of such a block of some file of L.
C2_FlatSum ==
    (g_pc = "returned" /\ ~group_by_authority) =>
        /\ SumValues(results_by_org) =
              Cardinality({i \in 1..Len(g_file_list) : HasPocOrg(g_file_list[i])})
        /\ \A k \in DOMAIN results_by_org :
              /\ results_by_org[k] >= 1
              /\ \E i \in 1..Len(g_file_list) :
                    \E c \in 1..Len(g_file_list[i].contacts) :
                        /\ g_file_list[i].contacts[c].poc
                        /\ g_file_list[i].contacts[c].org_name # <<>>
                        /\ g_file_list[i].contacts[c].org_name[1] = k

\* A flat tally returned for a list of two files, one with a named point of contact
\* and one without, the tally holding the one count.
C2_Witness ==
    /\ g_pc = "returned"
    /\ ~group_by_authority
    /\ Len(g_file_list) = 2
    /\ \E i \in 1..2 : HasPocOrg(g_file_list[i])
    /\ \E i \in 1..2 : g_file_list[i].ok /\ ~HasPocOrg(g_file_list[i])
    /\ SumValues(results_by_org) = 1

\* C3: group_by_originator never fails: a document that cannot be parsed, or whose
\* processing raises, is logged and skipped, and the call returns the tally of the
\* other documents.
C3_GroupNeverFails ==
    /\ g_pc # "raised"
    /\ g_pc = "returned" => g_file_count = Len(g_file_list)

\* The number of colon-delimited segments, and the segment at 0-based index 3,
\* read off the positions of the colons.
ColonsAt(id) == {i \in 1..Len(id) : id[i] = ":"}
NSegments(id) == Cardinality(ColonsAt(id)) + 1
Segment3(id) ==
    LET p3 == CHOOSE p \in ColonsAt(id) : Cardinality({q \in ColonsAt(id) : q < p}) = 2
        after == {q \in ColonsAt(id) : q > p3}
        end == IF after = {} THEN Len(id) + 1
               ELSE CHOOSE q \in after : \A r \in after : q <= r
    IN SubSeq(id, p3 + 1, end - 1)

\* C4: citation_authority(id) never raises; it returns '' for an absent identifier
\* and for one of 3 or fewer colon-delimited segments, and the segment at index 3 for
\* one of more than 3.
C4_CitationAuthority ==
    id_call = "citation_authority" =>
        /\ id_result.raised = "no"
        /\ identifier = None => id_result.value = <<>>
        /\ (identifier # None /\ NSegments(identifier) <= 3) => id_result.value = <<>>
        /\ (identifier # None /\ NSegments(identifier) > 3) =>
              id_result.value = Segment3(identifier)

\* citation_authority gave a non-empty authority.
C4_Witness ==
    /\ id_call = "citation_authority"
    /\ identifier = IdCa
    /\ id_result.value = <<"c", "a">>

\* The part of s before its first hyphen (all of s if it has none).
BeforeFirstHyphen(s) ==
    IF \E i \in 1..Len(s) : s[i] = "-"
    THEN SubSeq(s, 1, (CHOOSE i \in 1..Len(s) : s[i] = "-" /\ \A j \in 1..(i - 1) : s[j] # "-") - 1)
    ELSE s

\* C5: for an identifier of at least 5 colon-delimited segments,
\* get_country_and_centre returns (country, centre id): the centre id is the segment
\* at index 3 and the country the part of it before its first hyphen.
C5_CountryAndCentre ==
    (id_call = "get_country_and_centre" /\ NSegments(identifier) >= 5) =>
        /\ id_result.raised = "no"
        /\ id_result.value = <<BeforeFirstHyphen(Segment3(identifier)), Segment3(identifier)>>

\* The test's identifier gives ('zm', 'zm-zmd').
C5_Witness ==
    /\ id_call = "get_country_and_centre"
    /\ identifier = TestId
    /\ id_result = Returned(<<<<"z", "m">>, <<"z", "m", "-", "z", "m", "d">>>>)

\* The authority the claim credits a document with: citation_authority of its file
\* identifier, '' when it has none.
C10_Authority(doc) ==
    IF doc.file_identifier = <<>> THEN <<>> ELSE CitationAuthority(doc.file_identifier[1])

C10_Org(doc) == doc.contacts[FirstContact(doc.contacts)].org_name[1]

C10_Count(a, o) ==
    IF a \in DOMAIN results_by_org /\ o \in DOMAIN results_by_org[a]
    THEN results_by_org[a][o] ELSE 0

\* C10: with group_by_authority=True every document with a named point of contact is
\* counted once, under citation_authority(fileIdentifier); one with no authority, or
\* with no fileIdentifier at all, is counted under the key ''.
C10_AuthorityCountsAll ==
    (g_pc = "returned" /\ group_by_authority) =>
        \A i \in 1..Len(g_file_list) :
            HasPocOrg(g_file_list[i]) =>
                C10_Count(C10_Authority(g_file_list[i]), C10_Org(g_file_list[i])) =
                    Cardinality({j \in 1..Len(g_file_list) :
                        /\ HasPocOrg(g_file_list[j])
                        /\ C10_Authority(g_file_list[j]) = C10_Authority(g_file_list[i])
                        /\ C10_Org(g_file_list[j]) = C10_Org(g_file_list[i])})

\* search has built its query parameters and sent the request.
ParamsBuilt == rq_pc \in {"request", "results", "returned"}

\* search has got its response.
Responded == "ok" \in DOMAIN response

\* The endpoint as the datetime parameter shows it: the value given, '..' if unset.
C6_Endpoint(v) == IF v.t = "none" THEN <<".", ".">> ELSE v.s

\* C6: with begin or end set, search builds the request without failing and sends
\* datetime = '<begin>/<end>', an unset endpoint shown as '..'; with neither set it
\* sends no datetime parameter.
C6_Datetime ==
    LET begin == Pop(kwargs, "begin")
        end == Pop(kwargs, "end")
    IN /\ rq_raised # "UnboundLocalError"
       /\ ParamsBuilt =>
            IF begin.t = "none" /\ end.t = "none"
            THEN "datetime" \notin DOMAIN params
            ELSE /\ "datetime" \in DOMAIN params
                 /\ params["datetime"] = PyStr(C6_Endpoint(begin) \o <<"/">> \o C6_Endpoint(end))

\* C7: given a centre_id, the outbound q requires it: the quoted centre id alone, or
\* the escaped q followed by ' AND "<centre_id>"', whichever of q and centre_id comes
\* first in the keyword arguments.
C7_CentreIdKept ==
    LET q == Pop(kwargs, "q")
        centre_id == Pop(kwargs, "centre_id")
        quoted == <<"\"">> \o centre_id.s \o <<"\"">>
    IN (ParamsBuilt /\ centre_id.t # "none") =>
          /\ "q" \in DOMAIN params
          /\ params["q"] = PyStr(IF q.t = "none" THEN quoted
                                 ELSE EscapeSlash(q.s) \o <<" ", "A", "N", "D", " ">> \o quoted)

\* C8: on a non-success status search returns None and raises nothing, whatever the
\* body; search_gdc then raises ClickException('Could not query catalogue') and has
\* printed no table.
C8_NonSuccess ==
    (Responded /\ ~response.ok) =>
        /\ rq_pc = "returned"
        /\ output = PyNone
        /\ cli_pc \in {"idle", "searching"} => rq_raised = "no"
        /\ cli_pc \notin {"idle", "searching"} =>
              /\ cli_pc = "raised"
              /\ rq_raised = "ClickException: Could not query catalogue"
              /\ \A i \in 1..Len(cli_out) : cli_out[i].echo # "table"

\* search_gdc has turned the None of a non-success answer, whose body is no JSON,
\* into the ClickException.
C8_Witness ==
    /\ Responded
    /\ ~response.ok
    /\ ~response.is_json
    /\ cli_pc = "raised"
    /\ rq_raised = "ClickException: Could not query catalogue"

\* The feature has an id, of which get_country_and_centre makes a centre id.
C9_IdResolved(item) == item.id.t = "str" /\ GetCountryAndCentre(item.id.s).raised = "no"

\* The feature has the fields a record is made of.
C9_WellFormed(item) == Record(item).raised = "no"

C9_Kept(items) ==
    LET kept == SelectSeq(items, C9_WellFormed)
    IN [i \in 1..Len(kept) |-> Record(kept[i]).value]

\* C9: a feature of a successful response that lacks an expected field, such as
\* properties.title, is dropped alone: search returns, and its records are those of
\* the well-formed features, in the order of the response. (Stated of responses whose
\* features all have an id that resolves to a centre id.)
C9_MalformedDropped ==
    (/\ Responded /\ response.ok /\ response.is_json /\ rq_pc # "results"
     /\ \A i \in 1..Len(response.features) : C9_IdResolved(response.features[i])) =>
        /\ rq_pc = "returned"
        /\ output.t = "dict"
        /\ output.d["records"] = C9_Kept(response.features)

\* C11: get_country_and_centre never raises, whatever the identifier string: one of
\* fewer than 5 colon-delimited segments, or with no colon at all, is resolved to a
\* (country, centre id) pair.
C11_NeverRaises ==
    id_call = "get_country_and_centre" =>
        /\ id_result.raised = "no"
        /\ Len(id_result.value) = 2

\* The positions of the dots, and the dot-delimited segment at 0-based index 1.
DotsAt(id) == {i \in 1..Len(id) : id[i] = "."}
DotSegment1(id) ==
    LET p1 == CHOOSE p \in DotsAt(id) : \A q \in DotsAt(id) : p <= q
        after == DotsAt(id) \ {p1}
        end == IF after = {} THEN Len(id) + 1
               ELSE CHOOSE q \in after : \A r \in after : q <= r
    IN SubSeq(id, p1 + 1, end - 1)

\* C12: for an identifier with no colon, of the dot-delimited form
\* '<prefix>.<centre-id>[.more]', get_country_and_centre returns as centre id the
\* dot-delimited segment at index 1 and as country the part of it before its first
\* hyphen.
C12_DotFallback ==
    (/\ id_call = "get_country_and_centre"
     /\ ColonsAt(identifier) = {}
     /\ DotsAt(identifier) # {}
     /\ DotSegment1(identifier) # <<>>) =>
        /\ id_result.raised = "no"
        /\ id_result.value =
              <<BeforeFirstHyphen(DotSegment1(identifier)), DotSegment1(identifier)>>

\* search has returned a result dict.
Resulted == rq_pc = "returned" /\ output.t = "dict"

\* C13: in every record search returns, the short title is the feature's title
\* unchanged when that has 50 characters or fewer, and its first 50 characters
\* followed by '...' when it has more; a title of exactly 50 is not truncated.
C13_TitleShort ==
    Resulted =>
        /\ Len(output.d["records"]) = Len(response.features)
        /\ \A i \in 1..Len(response.features) :
              LET title == response.features[i].title.s
                  short == output.d["records"][i][3]
              IN IF Len(title) <= 50
                 THEN short = title
                 ELSE /\ Len(short) = 53
                      /\ \A k \in 1..50 : short[k] = title[k]
                      /\ \A k \in 51..53 : short[k] = "."

\* search returned two records, of a title of 50 characters and of one of 51.
C13_Witness ==
    /\ Resulted
    /\ Len(output.d["records"]) = 2
    /\ Len(response.features[1].title.s) = 50
    /\ Len(output.d["records"][1][3]) = 50
    /\ Len(response.features[2].title.s) = 51
    /\ Len(output.d["records"][2][3]) = 53

\* The feature has an id that resolves to a centre id, and a title.
C14_OtherFields(item) == C9_IdResolved(item) /\ item.title.t = "str"

\* C14: a feature of a successful response without 'wmo:dataPolicy', or whose
\* data-policy object has no 'name', still gives a record, its data-policy label the
\* string 'missing'; otherwise the label is the field's string, or the 'name' member
\* of the object. (Stated of responses whose features all have an id and a title.)
C14_DataPolicyLabel ==
    (/\ Responded /\ response.ok /\ response.is_json /\ rq_pc # "results"
     /\ \A i \in 1..Len(response.features) : C14_OtherFields(response.features[i])) =>
        /\ Resulted
        /\ Len(output.d["records"]) = Len(response.features)
        /\ \A i \in 1..Len(response.features) :
              LET policy == response.features[i].policy
                  label == output.d["records"][i][4]
              IN /\ policy.t = "none" => label = <<"m", "i", "s", "s", "i", "n", "g">>
                 /\ (policy.t = "dict" /\ "name" \notin DOMAIN policy.d) =>
                        label = <<"m", "i", "s", "s", "i", "n", "g">>
                 /\ (policy.t = "dict" /\ "name" \in DOMAIN policy.d) =>
                        label = policy.d["name"]
                 /\ policy.t = "str" => label = policy.s

\* search returned the records of a feature without a data policy and of one whose
\* data-policy object has no 'name', both labelled 'missing'.
C14_Witness ==
    /\ Resulted
    /\ Len(response.features) = 2
    /\ response.features[1].policy.t = "none"
    /\ response.features[2].policy.t = "dict"
    /\ "name" \notin DOMAIN response.features[2].policy.d
    /\ output.d["records"][1][4] = Missing
    /\ output.d["records"][2][4] = Missing

\* get has been called for the identifier.
Got == rec_pc \in {"got", "done", "raised"}

\* C15: when the catalogue has no record of the identifier and answers with a
\* non-success status, get does not raise: it returns a value in which the absence
\* is recognised, and get_gdc_record reports 'Record identifier <id> not found' and
\* prints no record.
C15_AbsenceSignalled ==
    (Got /\ ~rec_gdc.ok) =>
        /\ rec_result.raised = "no"
        /\ rec_pc # "got" =>
              /\ rec_pc = "raised"
              /\ rec_raised = Exception("ClickException", NotFound(rec_identifier))
              /\ \A i \in 1..Len(rec_out) : rec_out[i].echo = "querying"

\* The permutations of 1..n, and a list taken in the order of one.
Orders(n) == {p \in [1..n -> 1..n] : \A i, j \in 1..n : i # j => p[i] # p[j]}
Permuted(list, p) == [i \in 1..Len(list) |-> list[p[i]]]

\* C16: the tally group_by_originator returns for a file list is the tally it returns
\* for every permutation of the list, key for key and count for count, with
\* group_by_authority False and True.
C16_OrderInvariant ==
    g_pc = "returned" =>
        \A p \in Orders(Len(g_file_list)) :
            GroupByOriginator(Permuted(g_file_list, p), group_by_authority)
                = Returned(results_by_org)

\* The tally returned for a list of two documents of one authority and two
\* organisations, by authority.
C16_Witness ==
    /\ g_pc = "returned"
    /\ group_by_authority
    /\ Len(g_file_list) = 2
    /\ g_file_list[1] # g_file_list[2]
    /\ DOMAIN results_by_org = {<<"c", "a">>}
    /\ DOMAIN results_by_org[<<"c", "a">>] = {"ECMWF", "DWD"}

\* out is q with n backslashes put before every '/', read off the positions: the
\* character i of q stands after the n-fold count of the slashes up to it.
C17_EscapedBy(n, q, out) ==
    LET at(i) == i + n * Cardinality({j \in 1..i : q[j] = "/"})
    IN /\ Len(out) = at(Len(q))
       /\ \A i \in 1..Len(q) :
             /\ out[at(i)] = q[i]
             /\ q[i] = "/" => \A k \in 1..n : out[at(i) - k] = "\\"

\* search was given a q and no centre_id, and has built its parameters.
C17_QGiven == ParamsBuilt /\ Pop(kwargs, "q").t = "str" /\ Pop(kwargs, "centre_id").t = "none"

\* C17: given q, the outbound q parameter is q with every '/' escaped as the
\* example for q='a/b' shows, by two backslashes before it (a, two backslashes, /, b),
\* all other characters unchanged.
C17_EscapedAsShown ==
    C17_QGiven =>
        /\ "q" \in DOMAIN params
        /\ C17_EscapedBy(2, Pop(kwargs, "q").s, params["q"].s)

\* C17, amended: given q, the outbound q parameter is q with one backslash before
\* every '/' (a, one backslash, /, b for q='a/b'), all other characters unchanged.
C17_EscapedOnce ==
    C17_QGiven =>
        /\ "q" \in DOMAIN params
        /\ C17_EscapedBy(1, Pop(kwargs, "q").s, params["q"].s)

\* The outbound q of q='a/b': four characters, the one backslash before the slash.
C17_Witness ==
    /\ C17_QGiven
    /\ Pop(kwargs, "q").s = <<"a", "/", "b">>
    /\ params["q"].s = <<"a", "\\", "/", "b">>

\* The string "1.0,2.0,3.0,4.0"
C18_Literal ==
    <<"1", ".", "0", ",", "2", ".", "0", ",", "3", ".", "0", ",", "4", ".", "0">>

\* search_gdc was given bbox="1.0,2.0,3.0,4.0", and search has built its parameters.
C18_BboxGiven ==
    /\ cli_pc # "idle"
    /\ ParamsBuilt
    /\ options.bbox.t = "str"
    /\ options.bbox.s = C18_Literal

\* C18: given bbox="1.0,2.0,3.0,4.0", the outbound request's bbox parameter is the
\* string "1.0,2.0,3.0,4.0": the four values in the order given, joined by single
\* commas, with nothing else between them.
C18_BboxLiteral ==
    C18_BboxGiven =>
        /\ "bbox" \in DOMAIN params
        /\ params["bbox"] = PyStr(C18_Literal)

\* The request went out with the bbox, search_gdc having parsed the four floats.
C18_Witness ==
    /\ C18_BboxGiven
    /\ Pop(kwargs, "bbox") = PyFloats(<<1000, 2000, 3000, 4000>>)
    /\ Responded
    /\ Len(params["bbox"].s) = 15

\* C19: for an identifier of at least 4 colon-delimited segments, get_centre_id
\* returns the segment at index 3; 'urn:wmo:md:zm-zmd:core.surface-based-
\* observations.synop' gives 'zm-zmd'.
C19_CentreId ==
    (id_call = "get_centre_id" /\ NSegments(identifier) >= 4) =>
        /\ id_result.raised = "no"
        /\ id_result.value = Segment3(identifier)
        /\ identifier = TestId => id_result.value = <<"z", "m", "-", "z", "m", "d">>

\* get_centre_id gave 'zm-zmd' for the test's identifier.
C19_Witness ==
    /\ id_call = "get_centre_id"
    /\ identifier = TestId
    /\ id_result = Returned(<<"z", "m", "-", "z", "m", "d">>)

\* The organisation names of the named point-of-contact blocks of the file list.
C20_Orgs ==
    UNION {{g_file_list[f].contacts[c].org_name[1] :
               c \in {k \in 1..Len(g_file_list[f].contacts) :
                         /\ g_file_list[f].contacts[k].poc
                         /\ g_file_list[f].contacts[k].org_name # <<>>}} :
           f \in 1..Len(g_file_list)}

\* The count the tally holds for an organisation, over all authorities.
C20_OrgCount(results, o) ==
    IF group_by_authority
    THEN SumValues([a \in DOMAIN results |->
                       IF o \in DOMAIN results[a] THEN results[a][o] ELSE 0])
    ELSE IF o \in DOMAIN results THEN results[o] ELSE 0

\* What the step over one document does to the counts.
C20_Step ==
    g_file_count' = g_file_count + 1 =>
        LET doc == g_file_list[g_file_count + 1]
            named == {i \in 1..Len(doc.contacts) :
                         doc.contacts[i].poc /\ doc.contacts[i].org_name # <<>>}
            delta(o) == C20_OrgCount(results_by_org', o) - C20_OrgCount(results_by_org, o)
            credited == {o \in C20_Orgs : delta(o) # 0}
        IN /\ \A o \in C20_Orgs : delta(o) \in {0, 1}
           /\ Cardinality(credited) <= 1
           /\ named = {} => credited = {}
           /\ credited # {} =>
                 \E i \in named :
                     /\ \A j \in named : i <= j
                     /\ credited = {doc.contacts[i].org_name[1]}
           /\ (named # {} /\ (~group_by_authority \/ doc.file_identifier # <<>>)) =>
                 credited # {}

\* C20: the organisation group_by_originator credits for a document is the name of
\* the first responsible-party block, in document order, that has the pointOfContact
\* role and an organisation name; other blocks are passed over, the scan stops at
\* that block, and the document adds exactly 1 to exactly one count, or nothing.
C20_FirstMatchWins == [][C20_Step]_vars

\* A document of two named point-of-contact blocks, ECMWF before DWD, has been
\* counted, for ECMWF alone.
C20_Witness ==
    /\ g_pc = "loop"
    /\ ~group_by_authority
    /\ g_file_count = 1
    /\ g_file_list[1].contacts = <<Contact(TRUE, <<"ECMWF">>), Contact(TRUE, <<"DWD">>)>>
    /\ DOMAIN results_by_org = {"ECMWF"}
    /\ results_by_org["ECMWF"] = 1

\* The '.xml' files of the directory that are malformed, by position in walk order.
C21_MalformedXml ==
    {i \in 1..Len(directory) : C1_IsXml(Filename(directory[i])) /\ ~directory[i].doc.ok}

\* The number of '.xml' files up to and including the first malformed one.
C21_UpToFirst ==
    LET first == CHOOSE i \in C21_MalformedXml : \A j \in C21_MalformedXml : i <= j
    IN Cardinality({j \in 1..first : C1_IsXml(Filename(directory[j]))})

\* C21: a malformed '.xml' document under the directory makes search_files_by_term
\* fail with the parse error: the call never returns a list, not even the matches
\* found before, and it fails at the first malformed file in walk order, the files
\* after it not examined.
C21_MalformedAborts ==
    (sf_pc # "idle" /\ C21_MalformedXml # {}) =>
        /\ sf_pc # "returned"
        /\ file_count <= C21_UpToFirst
        /\ sf_pc = "raised" <=> (sf_pc # "start" /\ file_count = C21_UpToFirst)

\* The call has failed at a malformed first file, an '.xml' file after it unread.
C21_Witness ==
    /\ sf_pc = "raised"
    /\ file_count = 1
    /\ Len(file_list) = 2
    /\ file_list[2].doc.ok
    /\ matches = <<>>

\* C22: every result search returns holds the 'fields' column list, and each of its
\* record tuples has as many entries as 'fields'; so search_gdc renders every result
\* with matched > 0 without a missing-key failure, one with no features included.
C22_FieldsAlways ==
    Resulted =>
        /\ "fields" \in DOMAIN output.d
        /\ \A i \in 1..Len(output.d["records"]) :
              Len(output.d["records"][i]) = Len(output.d["fields"])
        /\ (cli_pc # "idle" /\ output.d["matched"] > 0) => cli_pc # "raised"

\* The file's name holds the centre id somewhere before its '.json' ending, and
\* does not begin with a dot.
C23_Matches(name) ==
    /\ Len(name) >= 5
    /\ SubSeq(name, Len(name) - 4, Len(name)) = <<".", "j", "s", "o", "n">>
    /\ name[1] # "."
    /\ \E off \in 0..(Len(name) - 5 - Len(kpi_centre_id)) :
          \A k \in 1..Len(kpi_centre_id) : name[off + k] = kpi_centre_id[k]

C23_Matching == {i \in 1..Len(kpi_archive) : C23_Matches(kpi_archive[i].name)}

\* C23: analyze_kpi returns a report for every centre id: with no matching archive
\* file the call does not fail and the report has an empty scoring, the average 0
\* and the over-80 total 0; with matching files the over-80 total is the number of
\* records of a percentage strictly greater than 80. (Stated of archives whose
\* matching files hold well-formed JSON.)
C23_KpiReport ==
    (kpi_pc # "idle" /\ \A i \in C23_Matching : kpi_archive[i].ok) =>
        /\ kpi_pc # "raised"
        /\ kpi_pc = "returned" =>
              /\ C23_Matching = {} =>
                    /\ DOMAIN kpi_report.scoring = {}
                    /\ kpi_report.kpi_percentage_average = 0
                    /\ kpi_report.kpi_percentage_over80_total = 0
              /\ kpi_report.kpi_percentage_over80_total =
                    Cardinality({id \in DOMAIN kpi_report.scoring :
                                    kpi_report.scoring[id] > 80})

====
